---- MODULE Spec2Model ----
(***************************************************************************)
(* phraze: the command-line run of src/main.rs (argument record, custom    *)
(* list reading, word-count resolution, entropy report, passphrase loop)  *)
(* together with the library functions main calls.                        *)
(*                                                                         *)
(* Strings are sequences of one-character strings.  Option<T> is a         *)
(* sequence of length 0 (None) or 1 (Some).                                *)
(***************************************************************************)
EXTENDS Integers, Sequences, FiniteSets, TLC

VARIABLES opt, pc, custom_list, list_length, number_of_words_to_put_in_passphrase,
          stdout, stderr, panic_message

vars == <<opt, pc, custom_list, list_length, number_of_words_to_put_in_passphrase,
          stdout, stderr, panic_message>>

None == <<>>
Some(x) == <<x>>
IsSome(o) == Len(o) = 1
Unwrap(o) == o[1]

(***************************************************************************)
(* Bounds of the explored inputs.                                          *)
(***************************************************************************)
MaxStrength == 2
MaxWords == 3
MaxPassphrases == 2
MaxLines == 3

(***************************************************************************)
(* Characters.                                                             *)
(***************************************************************************)
CharCode(c) ==
    CASE c = "\t" -> 9
      [] c = " " -> 32
      [] c = "-" -> 45
      [] c = "A" -> 65
      [] c = "B" -> 66
      [] c = "E" -> 69
      [] c = "_" -> 95
      [] c = "a" -> 97
      [] c = "b" -> 98
      [] c = "e" -> 101
      [] c = "U+00C9" -> 201
      [] c = "U+00E9" -> 233
      [] c = "U+0301" -> 769
      [] OTHER -> 0

\* char::is_whitespace, as used by str::trim
IsWhitespace(c) == c \in {" ", "\t"}

RECURSIVE TrimStart(_)
TrimStart(s) ==
    IF s = <<>> THEN <<>>
    ELSE IF IsWhitespace(Head(s)) THEN TrimStart(Tail(s))
    ELSE s

RECURSIVE TrimEnd(_)
TrimEnd(s) ==
    IF s = <<>> THEN <<>>
    ELSE IF IsWhitespace(s[Len(s)]) THEN TrimEnd(SubSeq(s, 1, Len(s) - 1))
    ELSE s

\* str::trim
Trim(s) == TrimEnd(TrimStart(s))

\* Ord for String: lexicographic on the bytes, which orders as the code points do
RECURSIVE StrLess(_, _)
StrLess(a, b) ==
    IF b = <<>> THEN FALSE
    ELSE IF a = <<>> THEN TRUE
    ELSE IF CharCode(Head(a)) < CharCode(Head(b)) THEN TRUE
    ELSE IF CharCode(Head(a)) > CharCode(Head(b)) THEN FALSE
    ELSE StrLess(Tail(a), Tail(b))

RECURSIVE InsertSorted(_, _)
InsertSorted(w, sorted) ==
    IF sorted = <<>> THEN <<w>>
    ELSE IF StrLess(w, Head(sorted)) THEN <<w>> \o sorted
    ELSE <<Head(sorted)>> \o InsertSorted(w, Tail(sorted))

\* Vec::sort (stable; the order is total, so the result is the sorted permutation)
RECURSIVE Sort(_)
Sort(list) ==
    IF list = <<>> THEN <<>>
    ELSE InsertSorted(Head(list), Sort(Tail(list)))

\* Vec::dedup: removes consecutive repeated elements
RECURSIVE Dedup(_)
Dedup(list) ==
    IF Len(list) <= 1 THEN list
    ELSE IF list[1] = list[2] THEN Dedup(Tail(list))
    ELSE <<Head(list)>> \o Dedup(Tail(list))

(***************************************************************************)
(* Custom word list files.  A file is [ok, lines]: ok is whether the file  *)
(* can be opened and read, lines what BufRead::lines yields.               *)
(***************************************************************************)
\* read_by_line: Err when the file cannot be opened or read; else every line,
\* parsed as a String (which cannot fail)
read_by_line(file) ==
    IF file.ok THEN [ok |-> TRUE, lines |-> file.lines]
    ELSE [ok |-> FALSE, lines |-> <<>>]

Contains(w, c) == \E i \in 1..Len(w) : w[i] = c
IsNFC(w) == ~Contains(w, "U+0301")
IsNFD(w) == ~Contains(w, "U+00E9") /\ ~Contains(w, "U+00C9")

\* unicode_normalization_check::uniform_unicode_normalization: whether one
\* normalization form fits every word of the list
uniform_unicode_normalization(list) ==
    \/ \A i \in 1..Len(list) : IsNFC(list[i])
    \/ \A i \in 1..Len(list) : IsNFD(list[i])

\* the for loop of read_in_custom_list: push the trimmed line unless it is blank
RECURSIVE PushTrimmed(_)
PushTrimmed(file_input) ==
    IF file_input = <<>> THEN <<>>
    ELSE IF Trim(Head(file_input)) # <<>>
         THEN <<Trim(Head(file_input))>> \o PushTrimmed(Tail(file_input))
         ELSE PushTrimmed(Tail(file_input))

SortAndDedup_NoDedup(word_list) == Sort(word_list)

\* word_list.sort(); word_list.dedup();
SortAndDedup(word_list) == Dedup(Sort(word_list))

\* read_in_custom_list: [panic, word_list, warned]
read_in_custom_list(file) ==
    LET r == read_by_line(file)
        word_list == SortAndDedup(PushTrimmed(r.lines))
    IN  IF ~r.ok
        THEN [panic |-> "Error reading word list file", word_list |-> <<>>,
              warned |-> FALSE]
        ELSE [panic |-> "", word_list |-> word_list,
              warned |-> ~uniform_unicode_normalization(word_list)]

(***************************************************************************)
(* Built-in lists.  Only their lengths matter to main; word i of a list    *)
(* is the list's letter followed by the decimal digits of i.               *)
(***************************************************************************)
\* str::to_lowercase on the one-letter arguments explored
to_lowercase(s) ==
    CASE s = "L" -> "l"
      [] s = "M" -> "m"
      [] s = "E" -> "e"
      [] s = "N" -> "n"
      [] s = "S" -> "s"
      [] s = "Q" -> "q"
      [] s = "A" -> "a"
      [] s = "X" -> "x"
      [] OTHER -> s

\* parse_list_choice: [ok, list]
parse_list_choice(list_choice) ==
    LET lower == to_lowercase(list_choice)
    IN  CASE lower = "l" -> [ok |-> TRUE, list |-> "Long"]
          [] lower = "m" -> [ok |-> TRUE, list |-> "Medium"]
          [] lower = "e" -> [ok |-> TRUE, list |-> "Eff"]
          [] lower = "n" -> [ok |-> TRUE, list |-> "Mnemonicode"]
          [] lower = "s" -> [ok |-> TRUE, list |-> "Effshort"]
          [] lower = "q" -> [ok |-> TRUE, list |-> "Qwerty"]
          [] lower = "a" -> [ok |-> TRUE, list |-> "Alpha"]
          [] OTHER -> [ok |-> FALSE, list |-> list_choice]

\* fetch_list(..).len()
BuiltInLength(list) ==
    CASE list = "Medium" -> 8192
      [] list = "Long" -> 17576
      [] list = "Eff" -> 7776
      [] list = "Mnemonicode" -> 1633
      [] list = "Effshort" -> 1296
      [] list = "Qwerty" -> 1296
      [] list = "Alpha" -> 1296

BuiltInLetter(list) ==
    CASE list = "Medium" -> "m"
      [] list = "Long" -> "l"
      [] list = "Eff" -> "e"
      [] list = "Mnemonicode" -> "n"
      [] list = "Effshort" -> "s"
      [] list = "Qwerty" -> "q"
      [] list = "Alpha" -> "a"

DigitChars == <<"0", "1", "2", "3", "4", "5", "6", "7", "8", "9">>

RECURSIVE Decimal(_)
Decimal(i) ==
    IF i < 10 THEN <<DigitChars[i + 1]>>
    ELSE Decimal(i \div 10) \o <<DigitChars[(i % 10) + 1]>>

\* A word list as generate_passphrase sees it: [builtin, words].  builtin is
\* the built-in list's name or "" for a custom list, whose words are given.
CustomList(words) == [builtin |-> "", words |-> words]
fetch_list(list) == [builtin |-> list, words |-> <<>>]

ListLen(list) == IF list.builtin = "" THEN Len(list.words) ELSE BuiltInLength(list.builtin)

\* list[i], 0-based
ListWord(list, i) ==
    IF list.builtin = "" THEN list.words[i + 1]
    ELSE <<BuiltInLetter(list.builtin)>> \o Decimal(i)

(***************************************************************************)
(* Exact arithmetic for ceil(e / log2(L)).  A natural number is a          *)
(* little-endian sequence of limbs below LimbBase; n * log2(L) >= e is     *)
(* L^n >= 2^e, i.e. L^n has more than e binary digits.                     *)
(***************************************************************************)
LimbBits == 15
LimbBase == 2 ^ LimbBits

BigOne == <<1>>

RECURSIVE BigMulCarry(_, _, _)
BigMulCarry(x, m, carry) ==
    IF x = <<>>
    THEN IF carry = 0 THEN <<>> ELSE <<carry>>
    ELSE LET t == Head(x) * m + carry
         IN  <<t % LimbBase>> \o BigMulCarry(Tail(x), m, t \div LimbBase)

\* x * m for 0 <= m < LimbBase
BigMulSmall(x, m) == BigMulCarry(x, m, 0)

RECURSIVE BigAddCarry(_, _, _)
BigAddCarry(x, y, carry) ==
    IF x = <<>> /\ y = <<>>
    THEN IF carry = 0 THEN <<>> ELSE <<carry>>
    ELSE LET a == IF x = <<>> THEN 0 ELSE Head(x)
             b == IF y = <<>> THEN 0 ELSE Head(y)
             t == a + b + carry
         IN  <<t % LimbBase>>
             \o BigAddCarry(IF x = <<>> THEN <<>> ELSE Tail(x),
                            IF y = <<>> THEN <<>> ELSE Tail(y), t \div LimbBase)

BigAdd(x, y) == BigAddCarry(x, y, 0)

\* x * y, one limb of y at a time
RECURSIVE BigMul(_, _)
BigMul(x, y) ==
    IF y = <<>> THEN <<>>
    ELSE BigAdd(BigMulSmall(x, Head(y)), <<0>> \o BigMul(x, Tail(y)))

\* base^n for 0 <= base < LimbBase, by repeated squaring
RECURSIVE BigPow(_, _)
BigPow(base, n) ==
    IF n = 0 THEN BigOne
    ELSE LET half == BigPow(base, n \div 2)
             square == BigMul(half, half)
         IN  IF n % 2 = 0 THEN square ELSE BigMulSmall(square, base)

RECURSIVE SmallBitLen(_)
SmallBitLen(v) == IF v = 0 THEN 0 ELSE 1 + SmallBitLen(v \div 2)

\* number of binary digits of x (0 for zero)
RECURSIVE BitLen(_)
BitLen(x) ==
    IF x = <<>> THEN 0
    ELSE IF x[Len(x)] = 0 THEN BitLen(SubSeq(x, 1, Len(x) - 1))
    ELSE (Len(x) - 1) * LimbBits + SmallBitLen(x[Len(x)])

\* x >= 2^e
AtLeastPow2(x, e) == BitLen(x) > e

\* floor(log2(x)) for x > 0
FloorLog2(x) == BitLen(x) - 1

(***************************************************************************)
(* EntropyResolver                                                         *)
(***************************************************************************)
DEFAULT_MINIMUM_ENTROPY == 80
BITS_PER_STRENGTH == 20

\* n * log2(list_len) >= minimum_entropy
EntropyReached(n, minimum_entropy, list_len) ==
    AtLeastPow2(BigPow(list_len, n), minimum_entropy)

\* the smallest n in lo..hi with EntropyReached, given that hi is one
RECURSIVE SmallestReaching(_, _, _, _)
SmallestReaching(lo, hi, minimum_entropy, list_len) ==
    IF lo >= hi THEN hi
    ELSE LET mid == (lo + hi) \div 2
         IN  IF EntropyReached(mid, minimum_entropy, list_len)
             THEN SmallestReaching(lo, mid, minimum_entropy, list_len)
             ELSE SmallestReaching(mid + 1, hi, minimum_entropy, list_len)

\* ceil(minimum_entropy / log2(list_len)) for list_len >= 2.  With
\* k = floor(log2(list_len)) >= 1 the quotient lies between
\* minimum_entropy / (k + 1) and minimum_entropy / k.
convert_minimum_entropy_to_number_of_words(minimum_entropy, list_len) ==
    LET k == FloorLog2(<<list_len>>)
    IN  SmallestReaching(minimum_entropy \div (k + 1), (minimum_entropy + k - 1) \div k,
                         minimum_entropy, list_len)

\* calculate_number_words_needed: [err, words]
calculate_number_words_needed(number_of_words, minimum_entropy, strength_count, list_len) ==
    IF IsSome(number_of_words)
    THEN [err |-> "", words |-> Unwrap(number_of_words)]
    ELSE IF list_len <= 1
    THEN [err |-> "ConfigurationError: word list has fewer than 2 entries", words |-> 0]
    ELSE LET effective ==
                 (IF IsSome(minimum_entropy) THEN Unwrap(minimum_entropy)
                  ELSE DEFAULT_MINIMUM_ENTROPY)
                 + strength_count * BITS_PER_STRENGTH
         IN  [err |-> "",
              words |-> convert_minimum_entropy_to_number_of_words(effective, list_len)]

(***************************************************************************)
(* The random number generator.  A stream is a fixed sequence of raw       *)
(* draws, read cyclically; which stream a passphrase gets is an input.     *)
(***************************************************************************)
RngTable ==
    << <<1, 0, 3, 2, 5, 4, 0>>,
       <<8191, 7, 17575, 9, 1295, 1, 26, 1632>> >>

RngStreams == 1..Len(RngTable)

Raw(stream, pos) == RngTable[stream][(pos % Len(RngTable[stream])) + 1]

\* a uniform draw in [0, bound)
GenRange(stream, pos, bound) == Raw(stream, pos) % bound

(***************************************************************************)
(* SeparatorProvider                                                       *)
(***************************************************************************)
SepNumeric == <<"_", "n">>
SepSymbolic == <<"_", "s">>
SepMixed == <<"_", "b">>

SymbolAlphabet ==
    <<"!", "@", "#", "$", "%", "&", "*", "(", ")", "{", "}", "[", "]", "\\",
      ":", ";", "'", "<", ">", "?", ",", ".", "/", "_", "-", "+", "=">>

RandomDigit(stream, pos) == <<DigitChars[GenRange(stream, pos, 10) + 1]>>
RandomSymbol(stream, pos) ==
    <<SymbolAlphabet[GenRange(stream, pos, Len(SymbolAlphabet)) + 1]>>

\* the draws one separator takes from the stream
SeparatorDraws(separator) ==
    CASE separator = SepNumeric -> 1
      [] separator = SepSymbolic -> 1
      [] separator = SepMixed -> 2
      [] OTHER -> 0

\* one separator token, drawn at position pos of the stream
make_separator(separator, stream, pos) ==
    CASE separator = SepNumeric -> RandomDigit(stream, pos)
      [] separator = SepSymbolic -> RandomSymbol(stream, pos)
      [] separator = SepMixed ->
            IF GenRange(stream, pos, 2) = 0
            THEN RandomDigit(stream, pos + 1)
            ELSE RandomSymbol(stream, pos + 1)
      [] OTHER -> separator

(***************************************************************************)
(* PassphraseEngine                                                        *)
(***************************************************************************)
ToTitle(c) ==
    CASE c = "a" -> "A"
      [] c = "b" -> "B"
      [] c = "e" -> "E"
      [] c = "l" -> "L"
      [] c = "m" -> "M"
      [] c = "n" -> "N"
      [] c = "q" -> "Q"
      [] c = "s" -> "S"
      [] c = "U+00E9" -> "U+00C9"
      [] OTHER -> c

\* capitalize the first character of one word
TitleCase(word) == IF word = <<>> THEN word ELSE <<ToTitle(Head(word))>> \o Tail(word)

WordPiece(text, index) == [kind |-> "word", text |-> text, index |-> index]
SepPiece(text) == [kind |-> "sep", text |-> text, index |-> 0 - 1]

\* word i (0-based) of a passphrase: drawn after i words and i separators
DrawnWord(i, separator, title_case, list, stream) ==
    LET index == GenRange(stream, i * (1 + SeparatorDraws(separator)), ListLen(list))
    IN  WordPiece(IF title_case THEN TitleCase(ListWord(list, index))
                  ELSE ListWord(list, index), index)

\* the separator after word i (0-based), drawn right after that word
DrawnSeparator(i, separator, stream) ==
    SepPiece(make_separator(separator, stream, i * (1 + SeparatorDraws(separator)) + 1))

\* the pieces appended to the passphrase, in order: each word, followed by a
\* separator unless it is the last word
JoinWords(word_count, separator, title_case, list, stream) ==
    [j \in 1..(2 * word_count - 1) |->
        IF j % 2 = 1 THEN DrawnWord((j - 1) \div 2, separator, title_case, list, stream)
        ELSE DrawnSeparator((j \div 2) - 1, separator, stream)]

\* generate_passphrase: [err, pieces]
generate_passphrase(word_count, separator, title_case, list, stream) ==
    IF word_count = 0
    THEN [err |-> "InvalidRequest: word_count must be at least 1", pieces |-> <<>>]
    ELSE IF ListLen(list) = 0
    THEN [err |-> "empty word list", pieces |-> <<>>]
    ELSE [err |-> "",
          pieces |-> JoinWords(word_count, separator, title_case, list, stream)]

(***************************************************************************)
(* EntropyReporter                                                         *)
(***************************************************************************)
\* print_entropy: the line written to stderr.  bits is the whole bits of
\* log2(list_length) * number_of_words; special names the value when
\* log2(0) makes it no finite number.
print_entropy(number_of_words, list_len, n_passphrases) ==
    [kind |-> "entropy",
     text |-> IF n_passphrases = 1 THEN "Passphrase has an estimated"
              ELSE "Each passphrase has an estimated",
     number_of_words |-> number_of_words,
     list_len |-> list_len,
     bits |-> IF list_len = 0 THEN 0 ELSE FloorLog2(BigPow(list_len, number_of_words)),
     special |-> IF list_len > 0 THEN ""
                 ELSE IF number_of_words = 0 THEN "NaN" ELSE "-inf"]

(***************************************************************************)
(* Inputs of a run.                                                        *)
(***************************************************************************)
Separators == { <<"-">>, <<>>, SepNumeric, SepSymbolic, SepMixed }

MinimumEntropyInputs == {0, 1, 14, 27}

ListChoiceArgs == {"m", "l", "e", "n", "s", "Q", "a", "x"}

File(lines) == [ok |-> TRUE, lines |-> lines]
UnreadableFile == [ok |-> FALSE, lines |-> <<>>]

CustomFiles ==
    { UnreadableFile,
      File(<<>>),
      File(<< <<"a">>, <<" ", "a", " ">>, <<" ">> >>),
      File(<< <<"b">>, <<>>, <<"\t", "a">>, <<"B">>, <<"b", " ">> >>),
      File(<< <<"U+00E9">>, <<"e", "U+0301">> >>) }

LinePool ==
    { <<>>, <<" ">>, <<"a">>, <<" ", "a">>, <<"a", " ">>, <<"b">>, <<"B">>,
      <<"a", " ", "b">>, <<"\t", "b", " ">> }

RECURSIVE SeqsUpTo(_, _)
SeqsUpTo(S, n) ==
    IF n = 0 THEN { <<>> }
    ELSE LET shorter == SeqsUpTo(S, n - 1)
         IN  shorter \cup { Append(q, x) : q \in { t \in shorter : Len(t) = n - 1 }, x \in S }

\* the three generation modes exclude one another (conflicts_with)
GenerationModes ==
    { [strength_count |-> k, minimum_entropy |-> None, number_of_words |-> None] :
          k \in 0..MaxStrength }
    \cup { [strength_count |-> 0, minimum_entropy |-> Some(e), number_of_words |-> None] :
          e \in MinimumEntropyInputs }
    \cup { [strength_count |-> 0, minimum_entropy |-> None, number_of_words |-> Some(w)] :
          w \in 0..MaxWords }

\* --list and --custom-list exclude one another; list_choice defaults to "m"
ListSources ==
    { [list_choice |-> c, custom_list_file_path |-> None] : c \in ListChoiceArgs }
    \cup { [list_choice |-> "m", custom_list_file_path |-> Some(f)] : f \in CustomFiles }

Args(mode, source, n, sep, title, verbose) ==
    [strength_count |-> mode.strength_count,
     minimum_entropy |-> mode.minimum_entropy,
     number_of_words |-> mode.number_of_words,
     n_passphrases |-> n,
     separator |-> sep,
     list_choice |-> source.list_choice,
     custom_list_file_path |-> source.custom_list_file_path,
     title_case |-> title,
     verbose |-> verbose]

(***************************************************************************)
(* main                                                                    *)
(***************************************************************************)
Locals ==
    /\ custom_list = None
    /\ list_length = 0
    /\ number_of_words_to_put_in_passphrase = 0
    /\ stdout = <<>>
    /\ stderr = <<>>
    /\ panic_message = ""

Init ==
    /\ opt \in { Args(mode, source, n, sep, title, verbose) :
                   mode \in GenerationModes, source \in ListSources,
                   n \in 0..MaxPassphrases, sep \in Separators,
                   title \in BOOLEAN, verbose \in BOOLEAN }
    /\ pc = "parse"
    /\ Locals

Panic(message) ==
    /\ pc' = "panicked"
    /\ panic_message' = message

\* Args::parse: the list choice goes through parse_list_choice; an Err ends
\* the process with clap's usage error
ParseArgs ==
    /\ pc = "parse"
    /\ LET r == parse_list_choice(opt.list_choice)
       IN  IF r.ok
           THEN /\ opt' = [opt EXCEPT !.list_choice = r.list]
                /\ pc' = "check_separator"
                /\ UNCHANGED panic_message
           ELSE /\ pc' = "usage_error"
                /\ panic_message' = "Inputted list choice doesn't correspond to an available word list"
                /\ UNCHANGED opt
    /\ UNCHANGED <<custom_list, list_length, number_of_words_to_put_in_passphrase,
                   stdout, stderr>>

CheckSeparator ==
    /\ pc = "check_separator"
    /\ IF IsSome(opt.custom_list_file_path) /\ opt.separator = <<>> /\ ~opt.title_case
       THEN Panic("Must use a separator or title case when using a custom word list")
       ELSE pc' = "read_list" /\ UNCHANGED panic_message
    /\ UNCHANGED <<opt, custom_list, list_length, number_of_words_to_put_in_passphrase,
                   stdout, stderr>>

NormalizationWarning ==
    [kind |-> "warning",
     text |-> "WARNING: Custom word list has multiple Unicode normalizations.",
     number_of_words |-> 0, list_len |-> 0, bits |-> 0, special |-> ""]

ReadCustomList ==
    /\ pc = "read_list"
    /\ IF IsSome(opt.custom_list_file_path)
       THEN LET r == read_in_custom_list(Unwrap(opt.custom_list_file_path))
            IN  IF r.panic # ""
                THEN Panic(r.panic) /\ UNCHANGED <<custom_list, stderr>>
                ELSE /\ custom_list' = Some(r.word_list)
                     /\ stderr' = IF r.warned THEN Append(stderr, NormalizationWarning)
                                  ELSE stderr
                     /\ pc' = "list_length"
                     /\ UNCHANGED panic_message
       ELSE /\ custom_list' = None
            /\ pc' = "list_length"
            /\ UNCHANGED <<stderr, panic_message>>
    /\ UNCHANGED <<opt, list_length, number_of_words_to_put_in_passphrase, stdout>>

built_in_list == fetch_list(opt.list_choice)

\* the list generate_passphrase is given
ListInUse == IF IsSome(custom_list) THEN CustomList(Unwrap(custom_list)) ELSE built_in_list

ListLength_BuiltInOnly == ListLen(built_in_list)

\* the length of the list in use, as lines 114-117 compute it
ListLength ==
    IF IsSome(custom_list) THEN Len(Unwrap(custom_list)) ELSE ListLen(built_in_list)

ComputeListLength ==
    /\ pc = "list_length"
    /\ list_length' = ListLength
    /\ pc' = "resolve"
    /\ UNCHANGED <<opt, custom_list, number_of_words_to_put_in_passphrase, stdout,
                   stderr, panic_message>>

ResolveCall_DropsStrength ==
    calculate_number_words_needed(opt.number_of_words, opt.minimum_entropy, 0, list_length)

ResolveCall_DropsWordCount ==
    calculate_number_words_needed(None, opt.minimum_entropy, opt.strength_count, list_length)

ResolveCall ==
    calculate_number_words_needed(opt.number_of_words, opt.minimum_entropy,
                                  opt.strength_count, list_length)

ResolveWordCount ==
    /\ pc = "resolve"
    /\ LET r == ResolveCall
       IN  IF r.err # ""
           THEN Panic(r.err) /\ UNCHANGED number_of_words_to_put_in_passphrase
           ELSE /\ number_of_words_to_put_in_passphrase' = r.words
                /\ pc' = "report"
                /\ UNCHANGED panic_message
    /\ UNCHANGED <<opt, custom_list, list_length, stdout, stderr>>

ReportEntropy_Unconditional ==
    /\ pc = "report"
    /\ stderr' = Append(stderr, print_entropy(number_of_words_to_put_in_passphrase,
                                              list_length, opt.n_passphrases))
    /\ pc' = "generate"
    /\ UNCHANGED <<opt, custom_list, list_length, number_of_words_to_put_in_passphrase,
                   stdout, panic_message>>

\* if opt.verbose { print_entropy(..) }
ReportEntropy ==
    /\ pc = "report"
    /\ stderr' = IF opt.verbose
                 THEN Append(stderr, print_entropy(number_of_words_to_put_in_passphrase,
                                                   list_length, opt.n_passphrases))
                 ELSE stderr
    /\ pc' = "generate"
    /\ UNCHANGED <<opt, custom_list, list_length, number_of_words_to_put_in_passphrase,
                   stdout, panic_message>>

GenerateCall_AlwaysBuiltIn(stream) ==
    generate_passphrase(number_of_words_to_put_in_passphrase, opt.separator,
                        opt.title_case, built_in_list, stream)

GenerateCall_DefaultSeparator(stream) ==
    generate_passphrase(number_of_words_to_put_in_passphrase, <<"-">>,
                        opt.title_case, ListInUse, stream)

\* the call of generate_passphrase, on the custom list when there is one
GenerateCall(stream) ==
    generate_passphrase(number_of_words_to_put_in_passphrase, opt.separator,
                        opt.title_case, ListInUse, stream)

PrintPassphrase_PrintsBeforeFailing ==
    /\ pc = "generate"
    /\ Len(stdout) < opt.n_passphrases
    /\ \E stream \in RngStreams :
          LET r == GenerateCall(stream)
          IN  /\ stdout' = Append(stdout, r.pieces)
              /\ IF r.err # "" THEN Panic(r.err) ELSE UNCHANGED <<pc, panic_message>>
    /\ UNCHANGED <<opt, custom_list, list_length, number_of_words_to_put_in_passphrase,
                   stderr>>

\* one iteration of the loop: generate a passphrase and print it
PrintPassphrase ==
    /\ pc = "generate"
    /\ Len(stdout) < opt.n_passphrases
    /\ \E stream \in RngStreams :
          LET r == GenerateCall(stream)
          IN  IF r.err # ""
              THEN Panic(r.err) /\ UNCHANGED stdout
              ELSE /\ stdout' = Append(stdout, r.pieces)
                   /\ UNCHANGED <<pc, panic_message>>
    /\ UNCHANGED <<opt, custom_list, list_length, number_of_words_to_put_in_passphrase,
                   stderr>>

Return ==
    /\ pc = "generate"
    /\ Len(stdout) = opt.n_passphrases
    /\ pc' = "done"
    /\ UNCHANGED <<opt, custom_list, list_length, number_of_words_to_put_in_passphrase,
                   stdout, stderr, panic_message>>

Next ==
    \/ ParseArgs
    \/ CheckSeparator
    \/ ReadCustomList
    \/ ComputeListLength
    \/ ResolveWordCount
    \/ ReportEntropy
    \/ PrintPassphrase
    \/ Return

Spec == Init /\ [][Next]_vars

(***************************************************************************)
(* read_in_custom_list on every file of up to MaxLines lines of LinePool   *)
(***************************************************************************)
InitList ==
    /\ opt \in { Args([strength_count |-> 0, minimum_entropy |-> None,
                       number_of_words |-> None],
                      [list_choice |-> "Medium", custom_list_file_path |-> Some(f)],
                      1, <<"-">>, FALSE, FALSE) :
                   f \in { File(lines) : lines \in SeqsUpTo(LinePool, MaxLines) }
                         \cup { UnreadableFile } }
    /\ pc = "read_list"
    /\ Locals

NextList == ReadCustomList

SpecList == InitList /\ [][NextList]_vars

(***************************************************************************)
(* Properties                                                              *)
(***************************************************************************)
\* the word count has been resolved and the run goes on
Resolved == pc \in {"report", "generate", "done"}

\* calculate_number_words_needed has just returned
JustResolved == pc = "report"

Aborted == pc \in {"panicked", "usage_error"}

NoExplicitCount == ~IsSome(opt.number_of_words)

\* the minimum entropy a request without explicit word count asks for
RequestedEntropy ==
    IF IsSome(opt.minimum_entropy) THEN Unwrap(opt.minimum_entropy)
    ELSE 80 + 20 * opt.strength_count

WordsOf(passphrase) == { j \in 1..Len(passphrase) : passphrase[j].kind = "word" }
SeparatorsOf(passphrase) == { j \in 1..Len(passphrase) : passphrase[j].kind = "sep" }

IsDigit(text) == \E d \in 1..Len(DigitChars) : text = <<DigitChars[d]>>
IsSymbol(text) == \E d \in 1..Len(SymbolAlphabet) : text = <<SymbolAlphabet[d]>>

\* C1: without an explicit word count, for a list of L >= 2 words and a
\* minimum entropy e >= 1, the resolved word count n is the smallest with
\* n * log2(L) >= e, that is L^(n-1) < 2^e <= L^n; L = 8192 and e = 80 give 7.
C1_SmallestSufficientWordCount ==
    (JustResolved /\ NoExplicitCount /\ ListLen(ListInUse) >= 2 /\ RequestedEntropy >= 1)
    => LET n == number_of_words_to_put_in_passphrase
           L == ListLen(ListInUse)
           e == RequestedEntropy
       IN  /\ n >= 1
           /\ AtLeastPow2(BigPow(L, n), e)
           /\ ~AtLeastPow2(BigPow(L, n - 1), e)
           /\ (L = 8192 /\ e = 80) => n = 7

C1_Witness ==
    /\ JustResolved
    /\ NoExplicitCount
    /\ opt.list_choice = "Medium" /\ ~IsSome(custom_list)
    /\ RequestedEntropy = 80
    /\ number_of_words_to_put_in_passphrase = 7

\* C2: an explicit word count k is the resolved word count, whatever the
\* minimum entropy, the strength steps and the list length, and every
\* passphrase of the run has exactly k words.
C2_ExplicitCountUnchanged ==
    IsSome(opt.number_of_words)
    => LET k == Unwrap(opt.number_of_words)
       IN  /\ Resolved => number_of_words_to_put_in_passphrase = k
           /\ \A i \in 1..Len(stdout) : Cardinality(WordsOf(stdout[i])) = k
           /\ Resolved =>
                \A e \in {None} \cup { Some(x) : x \in MinimumEntropyInputs } :
                  \A strength \in 0..MaxStrength :
                    LET r == calculate_number_words_needed(opt.number_of_words, e,
                                                           strength, list_length)
                    IN  r.err = "" /\ r.words = k

C2_Witness ==
    /\ pc = "done"
    /\ opt.number_of_words = Some(3)
    /\ IsSome(custom_list) /\ list_length = 1
    /\ Len(stdout) = 2
    /\ \A i \in 1..2 : Cardinality(WordsOf(stdout[i])) = 3

\* C3: every passphrase printed consists of exactly word_count words of the
\* list in use, in the order they were drawn, with exactly word_count - 1
\* separators between them and none before the first or after the last word.
C3_WordsJoinedBySeparators ==
    \A i \in 1..Len(stdout) :
        LET p == stdout[i]
            n == number_of_words_to_put_in_passphrase
            cased(w) == IF opt.title_case THEN TitleCase(w) ELSE w
        IN  /\ n >= 1
            /\ ListLen(ListInUse) >= 1
            /\ Len(p) = 2 * n - 1
            /\ Cardinality(WordsOf(p)) = n
            /\ Cardinality(SeparatorsOf(p)) = n - 1
            /\ \A j \in 1..Len(p) : (p[j].kind = "word") <=> (j % 2 = 1)
            /\ p[1].kind = "word" /\ p[Len(p)].kind = "word"
            /\ \A j \in WordsOf(p) :
                  /\ p[j].index \in 0..(ListLen(ListInUse) - 1)
                  /\ p[j].text = cased(ListWord(ListInUse, p[j].index))
            /\ \E stream \in RngStreams :
                  \A w \in 0..(n - 1) :
                      p[2 * w + 1].index =
                          GenRange(stream, w * (1 + SeparatorDraws(opt.separator)),
                                   ListLen(ListInUse))

C3_Witness ==
    /\ pc = "done"
    /\ IsSome(custom_list) /\ Len(Unwrap(custom_list)) = 3
    /\ number_of_words_to_put_in_passphrase = 3
    /\ Len(stdout) = 2
    /\ Len(stdout[1]) = 5
    /\ stdout[1][1].index # stdout[1][3].index

\* C4: a run whose word list has fewer than 2 entries never prints a
\* passphrase and, asked for at least one, ends in a configuration error
\* instead of completing.
C4_ShortListRejected ==
    (pc \in {"list_length", "resolve", "report", "generate", "done", "panicked"}
        /\ ListLen(ListInUse) <= 1)
    => /\ stdout = <<>>
       /\ opt.n_passphrases > 0 => pc # "done"

\* C5: the resolved word count is at least 1, and a request with an explicit
\* word count of 0 is rejected without generating or printing a passphrase.
C5_ZeroWordCountRejected ==
    /\ Resolved => number_of_words_to_put_in_passphrase >= 1
    /\ opt.number_of_words = Some(0) => (stdout = <<>> /\ pc # "done")

\* C6: a run that ends in an error has printed no passphrase.
C6_AbortBeforeAnyPassphrase ==
    Aborted => stdout = <<>>

C6_Witness ==
    /\ pc = "panicked"
    /\ panic_message = "InvalidRequest: word_count must be at least 1"
    /\ opt.n_passphrases = 2
    /\ stdout = <<>>

\* C7: every separator of every passphrase is one decimal digit under _n,
\* one symbol of the symbol alphabet under _s, one digit or one symbol under
\* _b, and the separator string itself otherwise.
C7_SeparatorTokens ==
    \A i \in 1..Len(stdout) :
        \A j \in SeparatorsOf(stdout[i]) :
            LET text == stdout[i][j].text
            IN  CASE opt.separator = SepNumeric -> IsDigit(text)
                  [] opt.separator = SepSymbolic -> IsSymbol(text)
                  [] opt.separator = SepMixed -> IsDigit(text) \/ IsSymbol(text)
                  [] OTHER -> text = opt.separator

\* under _b one passphrase holds a digit separator and a symbol separator
C7_Witness ==
    /\ opt.separator = SepMixed
    /\ \E i \in 1..Len(stdout) :
          /\ \E j \in SeparatorsOf(stdout[i]) : IsDigit(stdout[i][j].text)
          /\ \E j \in SeparatorsOf(stdout[i]) : IsSymbol(stdout[i][j].text)

\* C8: with neither minimum entropy nor word count given, strength k
\* resolves as minimum entropy 80 + 20k with strength 0 does.
C8_StrengthAsEntropy ==
    (JustResolved /\ NoExplicitCount /\ ~IsSome(opt.minimum_entropy))
    => LET r == calculate_number_words_needed(None, Some(80 + 20 * opt.strength_count),
                                              0, ListLen(ListInUse))
       IN  r.err = "" /\ number_of_words_to_put_in_passphrase = r.words

C8_Witness ==
    /\ JustResolved
    /\ opt.strength_count = 2
    /\ opt.list_choice = "Medium" /\ ~IsSome(custom_list)
    /\ number_of_words_to_put_in_passphrase = 10

\* C9: the list read_in_custom_list returns is strictly ascending, has no
\* blank entry and no entry with leading or trailing whitespace, and its
\* entries are exactly the trimmed non-blank lines of the file.
C9_CustomListNormalized ==
    (pc = "list_length" /\ IsSome(opt.custom_list_file_path))
    => LET lines == Unwrap(opt.custom_list_file_path).lines
           list == Unwrap(custom_list)
       IN  /\ IsSome(custom_list)
           /\ \A i \in 1..(Len(list) - 1) : StrLess(list[i], list[i + 1])
           /\ \A i, j \in 1..Len(list) : i # j => list[i] # list[j]
           /\ \A i \in 1..Len(list) :
                 /\ list[i] # <<>>
                 /\ ~IsWhitespace(list[i][1])
                 /\ ~IsWhitespace(list[i][Len(list[i])])
           /\ { list[i] : i \in 1..Len(list) }
                 = { Trim(lines[j]) : j \in 1..Len(lines) } \ { <<>> }

C9_Witness ==
    /\ pc = "list_length"
    /\ Unwrap(opt.custom_list_file_path).lines = << <<"b">>, <<" ", "a">>, <<"b">> >>
    /\ custom_list = Some(<< <<"a">>, <<"b">> >>)

\* C10: verbose does not feed back into generation.  Once the entropy report
\* is past, the word count is the one the arguments other than verbose
\* resolve to on the list in use, stderr holds one entropy estimate when
\* verbose is set and none otherwise, computed from that word count and that
\* list's length, and a run that completes has printed n_passphrases
\* passphrases of that word count.  No estimate is ever emitted without
\* verbose, and never more than one.
EntropyLines == { i \in 1..Len(stderr) : stderr[i].kind = "entropy" }

C10_VerboseOnlyReports ==
    /\ Cardinality(EntropyLines) <= (IF opt.verbose THEN 1 ELSE 0)
    /\ stdout # <<>> => pc \in {"generate", "done"}
    /\ pc \in {"generate", "done"} =>
          /\ LET r == calculate_number_words_needed(opt.number_of_words,
                          opt.minimum_entropy, opt.strength_count, ListLen(ListInUse))
             IN  r.err = "" /\ number_of_words_to_put_in_passphrase = r.words
          /\ Cardinality(EntropyLines) = (IF opt.verbose THEN 1 ELSE 0)
          /\ \A i \in EntropyLines :
                /\ stderr[i].number_of_words = number_of_words_to_put_in_passphrase
                /\ stderr[i].list_len = ListLen(ListInUse)
          /\ \A i \in 1..Len(stdout) :
                Cardinality(WordsOf(stdout[i])) = number_of_words_to_put_in_passphrase
    /\ pc = "done" => Len(stdout) = opt.n_passphrases

C10_Witness ==
    /\ pc = "done"
    /\ opt.verbose
    /\ IsSome(custom_list)
    /\ Len(stdout) = 2
    /\ Cardinality(EntropyLines) = 1
    /\ \E i \in EntropyLines : stderr[i].list_len = 3 /\ stderr[i].bits >= 80

====
